---- MODULE Spec2Model ----
(***************************************************************************)
(* Model of the peer-review survey application (src/app.py).               *)
(*                                                                         *)
(* The review store is the file reviews.csv: a sequence of rows of text    *)
(* cells.  Text is modelled as a sequence of one-character strings, so     *)
(* that pandas' read_csv type inference (integers, floats, NA markers) and *)
(* to_csv formatting are computed, not assumed to be the identity.         *)
(* Every browser session runs the script in its own thread; a session's    *)
(* runs are serialized, runs of different sessions interleave at the file  *)
(* operations.                                                             *)
(***************************************************************************)
EXTENDS Integers, Sequences, FiniteSets, TLC

VARIABLES
    store,          \* reviews.csv: the rows below the header, as text cells
    session_state,  \* st.session_state['user_token'] of every session
    pc,             \* where each session's script run stands
    review,         \* the entry a session's running submission is saving
    df,             \* the DataFrame save_review loaded (line 44)
    run,            \* what the run that entered save_review had decided (throttle, employee, button)
    nextId,         \* source of fresh uuid4 / timestamp values
    everBlocked,    \* history: the tokens some form cycle has rejected
    writes,         \* history: the file writes made, each with the frame it extended
    last            \* the most recent step and what its page showed

vars == <<store, session_state, pc, review, df, run, nextId, everBlocked, writes, last>>

----------------------------------------------------------------------------
(* Bounds of the model *)

\* browser sessions: 1..NumSessions
NumSessions == 2

\* submit presses in one behaviour
MaxSubmits == 2

\* rows of the stores the aggregation specification starts from
MaxRows == 2

Sessions == 1..NumSessions

----------------------------------------------------------------------------
(* Program constants *)

\* CATEGORIES has six entries
NumCategories == 6

\* st.slider(cat, 1, 5, 3): the slider's default
DefaultRating == 3

\* user_reviews.shape[0] >= 10
Cap == 10

ADMIN_USERNAME == <<"a", "d", "m", "i", "n">>

\* bcrypt's hash of a password, as an injective function of the password
bcrypt_hash(password) == <<"$2b$12$", password>>

\* the password whose hash line 25 stores
AdminPassword == <<"s", "3", "c", "r", "e", "t">>

HASHED_PASSWORD == bcrypt_hash(AdminPassword)

\* bcrypt.checkpw(password, hashed)
checkpw(password, hashed) == bcrypt_hash(password) = hashed

\* 'user_token' not in st.session_state (a token has six characters)
NoToken == <<>>
\* Python's None
None == [none |-> TRUE]

----------------------------------------------------------------------------
(* Text *)

DigitChars == <<"0", "1", "2", "3", "4", "5", "6", "7", "8", "9">>
UpperChars == <<"A", "B", "C", "D", "E", "F", "G", "H", "I", "J", "K", "L", "M",
                "N", "O", "P", "Q", "R", "S", "T", "U", "V", "W", "X", "Y", "Z">>
LowerChars == <<"a", "b", "c", "d", "e", "f", "g", "h", "i", "j", "k", "l", "m",
                "n", "o", "p", "q", "r", "s", "t", "u", "v", "w", "x", "y", "z">>

Range(f) == {f[i] : i \in DOMAIN f}

IsDigit(c) == c \in Range(DigitChars)
DigitVal(c) == (CHOOSE i \in DOMAIN DigitChars : DigitChars[i] = c) - 1

\* str.lower() on one character
LowerChar(c) ==
    IF c \in Range(UpperChars)
    THEN LowerChars[CHOOSE i \in DOMAIN UpperChars : UpperChars[i] = c]
    ELSE c

\* str.lower()
Lower(t) == [i \in DOMAIN t |-> LowerChar(t[i])]

\* str.strip(): leading and trailing whitespace removed
RECURSIVE LStrip(_)
LStrip(t) == IF t # <<>> /\ Head(t) = " " THEN LStrip(Tail(t)) ELSE t
RECURSIVE RStrip(_)
RStrip(t) == IF t # <<>> /\ t[Len(t)] = " " THEN RStrip(SubSeq(t, 1, Len(t) - 1)) ELSE t
Strip(t) == RStrip(LStrip(t))

\* substring test (str.contains with a pattern of letters and digits)
Contains(hay, needle) ==
    \E i \in 0..(Len(hay) - Len(needle)) : SubSeq(hay, i + 1, i + Len(needle)) = needle

\* str(n) for n >= 0
RECURSIVE TextOfInt(_)
TextOfInt(n) ==
    IF n < 10 THEN <<DigitChars[n + 1]>>
    ELSE TextOfInt(n \div 10) \o <<DigitChars[(n % 10) + 1]>>

\* int(t) for a text of digits
RECURSIVE IntOfText(_)
IntOfText(t) ==
    IF t = <<>> THEN 0
    ELSE IntOfText(SubSeq(t, 1, Len(t) - 1)) * 10 + DigitVal(t[Len(t)])

----------------------------------------------------------------------------
(* reviews.csv <-> DataFrame (pandas read_csv / to_csv) *)

\* the texts read_csv reads as NaN (pandas' default na_values)
NATexts ==
    { <<>>,
      <<"N", "A">>, <<"N", "/", "A">>, <<"n", "/", "a">>, <<"#", "N", "/", "A">>,
      <<"#", "N", "A">>, <<"<", "N", "A", ">">>, <<"N", "U", "L", "L">>,
      <<"n", "u", "l", "l">>, <<"N", "a", "N">>, <<"n", "a", "n">>,
      <<"-", "N", "a", "N">>, <<"-", "n", "a", "n">>, <<"N", "o", "n", "e">>,
      <<"1", ".", "#", "I", "N", "D">>, <<"-", "1", ".", "#", "I", "N", "D">>,
      <<"1", ".", "#", "Q", "N", "A", "N">>, <<"-", "1", ".", "#", "Q", "N", "A", "N">>,
      <<"#", "N", "/", "A", " ", "N", "/", "A">> }

IsNA(t) == t \in NATexts

\* a text read_csv parses as an integer: digits only (leading zeros allowed)
IsIntText(t) == t # <<>> /\ \A i \in DOMAIN t : IsDigit(t[i])

\* a text read_csv parses as a float with an integral value: digits "." zeros
IsFloatText(t) ==
    \E p \in DOMAIN t :
        /\ t[p] = "."
        /\ IsIntText(SubSeq(t, 1, p - 1))
        /\ \A i \in (p + 1)..Len(t) : t[i] = "0"

FloatIntPart(t) == IntOfText(SubSeq(t, 1, (CHOOSE p \in DOMAIN t : t[p] = ".") - 1))

\* cells of a loaded column
NaN == [k |-> "nan"]
StrCell(t) == [k |-> "str", v |-> t]
IntCell(n) == [k |-> "int", v |-> n]
FloatCell(n) == [k |-> "float", v |-> n]

\* the dtype read_csv infers for a column from its texts
ColumnKind(texts) ==
    IF texts = <<>> THEN "object"
    ELSE IF \A i \in DOMAIN texts : IsNA(texts[i]) THEN "float"
    ELSE IF \A i \in DOMAIN texts : IsIntText(texts[i]) THEN "int"
    ELSE IF \A i \in DOMAIN texts :
                IsNA(texts[i]) \/ IsIntText(texts[i]) \/ IsFloatText(texts[i])
         THEN "float"
    ELSE "object"

ParseCell(kind, t) ==
    IF IsNA(t) THEN NaN
    ELSE IF kind = "int" THEN IntCell(IntOfText(t))
    ELSE IF kind = "float"
         THEN FloatCell(IF IsIntText(t) THEN IntOfText(t) ELSE FloatIntPart(t))
    ELSE StrCell(t)

\* to_csv of one cell: NaN is written as the empty text
FormatCell(c) ==
    IF c.k = "nan" THEN <<>>
    ELSE IF c.k = "int" THEN TextOfInt(c.v)
    ELSE IF c.k = "float" THEN TextOfInt(c.v) \o <<".", "0">>
    ELSE c.v

\* pd.read_csv(REVIEW_FILE): the free-text columns user_token and comment go
\* through type inference; id and timestamp (uuid4, isoformat) are never
\* numeric or NA, employee_id and the ratings are integers, and the employee
\* names of the roster are plain names: these are read back as written.
read_csv(rows) ==
    LET tokKind == ColumnKind([i \in DOMAIN rows |-> rows[i].user_token])
        comKind == ColumnKind([i \in DOMAIN rows |-> rows[i].comment])
    IN  [i \in DOMAIN rows |->
            [rows[i] EXCEPT !.user_token = ParseCell(tokKind, @),
                            !.comment = ParseCell(comKind, @)]]

\* df.to_csv(REVIEW_FILE, index=False): the whole file is rewritten
to_csv(frame) ==
    [i \in DOMAIN frame |->
        [frame[i] EXCEPT !.user_token = FormatCell(@), !.comment = FormatCell(@)]]

load_reviews(file) == read_csv(file)

\* pd.concat([df, pd.DataFrame([entry])], ignore_index=True): the entry's
\* user_token and comment are Python strings
concat(frame, entry) ==
    Append(frame, [entry EXCEPT !.user_token = StrCell(@), !.comment = StrCell(@)])

\* lines 45-46: the file that results from a frame and a new entry
rewritten(frame, entry) == to_csv(concat(frame, entry))

\* mutant: save_review reading the file again at the moment it writes
save_review_write_reread(frame, entry) == rewritten(load_reviews(store), entry)

\* save_review, lines 45-46, on the frame line 44 loaded
save_review_write(frame, entry) == rewritten(frame, entry)


----------------------------------------------------------------------------
(* Inputs the model draws from *)

\* values generate_captcha can return: six characters of A-Z0-9; one with
\* letters, one all digits, one all digits with a leading zero
TokenSamples ==
    { <<"A", "B", "C", "1", "2", "3">>,
      <<"1", "2", "3", "4", "5", "6">>,
      <<"0", "1", "2", "3", "4", "5">> }

\* employee_list.csv as load_employees returns it
Employees ==
    << [id |-> 7, name |-> <<"A", "n", "a">>],
       [id |-> 12, name |-> <<"B", "o">>],
       [id |-> 21, name |-> <<"C", "y">>] >>

\* what the user types into the search box
QuerySamples == { <<>>, <<"A", "N">>, <<"1">>, <<"z">> }

DefaultRatings == [c \in 1..NumCategories |-> DefaultRating]

\* slider settings of the concurrent specification
RatingSamples == { DefaultRatings, <<5, 4, 3, 4, 5, 3>>, <<1, 2, 1, 2, 1, 2>> }

\* what the user types into the comment box
CommentSamples == { <<>>, <<" ", "o", "k", " ">>, <<"N", "/", "A">>, <<"0", "7">> }

----------------------------------------------------------------------------
(* Session token (lines 48-54) *)

\* generate_captcha(): any six characters; the model draws from TokenSamples
generate_captcha == TokenSamples

\* what line 53 can draw: generate_captcha is called only when the session has
\* no token yet
FreshTokens(state, tokens) ==
    IF state = NoToken THEN generate_captcha \cap tokens ELSE {NoToken}

\* mutant: get_user_token drawing a token on every call
get_user_token_redraw(state, fresh) ==
    LET drawn == IF fresh = NoToken
                 THEN CHOOSE t \in generate_captcha : t # state
                 ELSE fresh
    IN  [state |-> drawn, token |-> drawn]

\* get_user_token(): the session's state after the call and the token the call
\* returns, given the value generate_captcha returns when it is called
get_user_token(state, fresh) ==
    LET bound == IF state = NoToken THEN fresh ELSE state
    IN  [state |-> bound, token |-> bound]

----------------------------------------------------------------------------
(* Employee search (lines 57-74) *)

Display(e) == TextOfInt(e.id) \o <<" ", "-", " ">> \o e.name

Matches(e, query) ==
    \/ Contains(Lower(e.name), Lower(query))
    \/ Contains(TextOfInt(e.id), query)

Filtered(employees_df, query) ==
    IF query # <<>>
    THEN SelectSeq(employees_df, LAMBDA e : Matches(e, query))
    ELSE employees_df

\* employee_search_selectbox: choice is the option the user picks in the selectbox
employee_search_selectbox(employees_df, query, choice) ==
    LET filtered == Filtered(employees_df, query)
    IN  IF filtered = <<>> \/ choice \notin DOMAIN filtered THEN None
        ELSE LET selected == Display(filtered[choice])
                 first == CHOOSE i \in DOMAIN filtered :
                            /\ Display(filtered[i]) = selected
                            /\ \A j \in 1..(i - 1) : Display(filtered[j]) # selected
             IN  filtered[first]

----------------------------------------------------------------------------
(* Throttle (lines 84-89) *)

\* all_reviews[all_reviews["user_token"] == user_token].shape[0]: a cell of an
\* integer or float column never equals the token string
user_reviews_count(all_reviews, user_token) ==
    Cardinality({i \in DOMAIN all_reviews : all_reviews[i].user_token = StrCell(user_token)})

\* mutant: the throttle comparing with > instead of >=
throttled_above(count) == count > Cap

\* mutant: the throttle never stopping the run
throttled_never(count) == FALSE

\* user_reviews.shape[0] >= 10
throttled(count) == count >= Cap

----------------------------------------------------------------------------
(* The review a submit builds (lines 105-113) *)

make_review(uid, emp, user_token, ratings, comment) ==
    [ id            |-> uid,
      timestamp     |-> uid,
      employee_id   |-> emp.id,
      employee_name |-> emp.name,
      user_token    |-> user_token,
      ratings       |-> ratings,
      comment       |-> Strip(comment) ]

----------------------------------------------------------------------------
(* States the program starts from *)

IdleRun == [count |-> 0, emp |-> None, submit |-> FALSE]

\* the store after n submissions of one session holding user_token, made one
\* after the other through save_review (rows written before this run began)
RECURSIVE Prefill(_, _)
Prefill(user_token, n) ==
    IF n = 0 THEN <<>>
    ELSE rewritten(
            load_reviews(Prefill(user_token, n - 1)),
            make_review(0 - n, Employees[1], user_token, DefaultRatings, <<>>))

----------------------------------------------------------------------------
(* show_survey_form (lines 77-141) *)

\* Sessions are numbered in the order in which they first run the form
Connected(s) == \A r \in Sessions : r < s => session_state[r] # NoToken

\* One run of the form script up to the submit button: token, throttle,
\* employee search, sliders, comment, button.  A pressed button leaves the run
\* inside save_review (lines 43-46), whose file read and file write are
\* separate steps.
FormCycle(s, tokens, inputs) ==
    /\ pc[s] = "idle"
    /\ Connected(s)
    /\ \E fresh \in FreshTokens(session_state[s], tokens) :
        LET got == get_user_token(session_state[s], fresh)
            user_token == got.token
            count == user_reviews_count(load_reviews(store), user_token)
        IN  /\ session_state' = [session_state EXCEPT ![s] = got.state]
            /\ IF throttled(count)
               THEN \* lines 87-89: st.error, st.stop
                    /\ everBlocked' = everBlocked \cup {user_token}
                    /\ last' = [op |-> "form_blocked", s |-> s, token |-> user_token]
                    /\ UNCHANGED <<store, pc, review, df, run, nextId, writes>>
               ELSE \E in \in inputs :
                    LET emp == employee_search_selectbox(Employees, in.query, in.choice)
                    IN  IF emp = None
                        THEN \* lines 93-94: st.stop
                             /\ last' = [op |-> "form_no_employee", s |-> s, token |-> user_token]
                             /\ UNCHANGED <<store, pc, review, df, run, nextId, everBlocked, writes>>
                        ELSE IF ~in.button
                        THEN \* the form is shown and the run ends
                             /\ last' = [op |-> "form_shown", s |-> s, token |-> user_token]
                             /\ UNCHANGED <<store, pc, review, df, run, nextId, everBlocked, writes>>
                        ELSE \* lines 104-114: build the review, enter save_review
                             /\ nextId <= MaxSubmits
                             /\ review' = [review EXCEPT ![s] =
                                   make_review(nextId, emp, user_token, in.ratings, in.comment)]
                             /\ nextId' = nextId + 1
                             /\ pc' = [pc EXCEPT ![s] = "save_load"]
                             /\ run' = [run EXCEPT ![s] =
                                   [count |-> count, emp |-> emp, submit |-> in.button]]
                             /\ last' = [op |-> "form_submit", s |-> s, token |-> user_token]
                             /\ UNCHANGED <<store, df, everBlocked, writes>>

\* save_review line 44: df = load_reviews()
SaveLoad(s) ==
    /\ pc[s] = "save_load"
    /\ df' = [df EXCEPT ![s] = load_reviews(store)]
    /\ pc' = [pc EXCEPT ![s] = "save_write"]
    /\ last' = [op |-> "save_load", s |-> s]
    /\ UNCHANGED <<store, session_state, review, run, nextId, everBlocked, writes>>

\* save_review lines 45-46: concat and rewrite the file; then the thank-you
\* banner and st.stop (lines 116-141)
SaveWrite(s) ==
    /\ pc[s] = "save_write"
    /\ store' = save_review_write(df[s], review[s])
    /\ pc' = [pc EXCEPT ![s] = "idle"]
    /\ df' = [df EXCEPT ![s] = None]
    /\ review' = [review EXCEPT ![s] = None]
    /\ writes' = Append(writes, [s |-> s, entry |-> review[s], frame |-> df[s]])
    /\ last' = [op |-> "save_write", s |-> s]
    /\ run' = [run EXCEPT ![s] = IdleRun]
    /\ UNCHANGED <<session_state, nextId, everBlocked>>

----------------------------------------------------------------------------
(* show_admin_portal (lines 143-197) *)

\* order of characters (code points) for the sorted group keys
CharOrder == <<" ">> \o DigitChars \o UpperChars \o LowerChars
CharCode(c) == CHOOSE i \in DOMAIN CharOrder : CharOrder[i] = c

\* a < b as Python compares strings
TextLess(a, b) ==
    \E i \in 1..(Len(a) + 1) :
        /\ \A j \in 1..(i - 1) : j <= Len(b) /\ a[j] = b[j]
        /\ IF i <= Len(a)
           THEN i <= Len(b) /\ CharCode(a[i]) < CharCode(b[i])
           ELSE Len(b) >= i

RECURSIVE SortedTexts(_)
SortedTexts(S) ==
    IF S = {} THEN <<>>
    ELSE LET m == CHOOSE x \in S : \A y \in S \ {x} : TextLess(x, y)
         IN  <<m>> \o SortedTexts(S \ {m})

RECURSIVE Sum(_)
Sum(q) == IF q = <<>> THEN 0 ELSE Head(q) + Sum(Tail(q))

\* mutant: the credential check with "or" for "and"
authenticated_either(username, password) ==
    username = ADMIN_USERNAME \/ checkpw(password, HASHED_PASSWORD)

\* line 157: username == ADMIN_USERNAME and bcrypt.checkpw(...)
authenticated(username, password) ==
    username = ADMIN_USERNAME /\ checkpw(password, HASHED_PASSWORD)

\* lines 169-171: the multiselect filter; an empty selection keeps every row
filter_employees(frame, selected) ==
    IF selected # {}
    THEN SelectSeq(frame, LAMBDA r : r.employee_name \in selected)
    ELSE frame

\* lines 174-177: the columns the review table shows
review_table(frame) ==
    [i \in DOMAIN frame |->
        [Timestamp |-> frame[i].timestamp, Employee |-> frame[i].employee_name,
         ratings |-> frame[i].ratings, comment |-> frame[i].comment]]

\* line 180: df.groupby("employee_name")[CATEGORIES].mean().reset_index():
\* one row per name, in sorted name order; a mean is the fraction num / den
group_means(frame) ==
    LET names == SortedTexts({frame[i].employee_name : i \in DOMAIN frame})
        rowsOf(name) == SelectSeq(frame, LAMBDA r : r.employee_name = name)
        mean(rows, c) == [num |-> Sum([i \in DOMAIN rows |-> rows[i].ratings[c]]),
                          den |-> Len(rows)]
    IN  [g \in DOMAIN names |->
            [Employee |-> names[g],
             means |-> [c \in 1..NumCategories |-> mean(rowsOf(names[g]), c)]]]

\* line 181: stats[CATEGORIES].mean(axis=1): the six means have the same
\* denominator, the number of the employee's reviews
total_score(means) ==
    [num |-> Sum([c \in DOMAIN means |-> means[c].num]),
     den |-> means[1].den * Len(means)]

with_total(stats) ==
    [g \in DOMAIN stats |->
        [Employee |-> stats[g].Employee, means |-> stats[g].means,
         Total |-> total_score(stats[g].means)]]

FracLess(a, b) == a.num * b.den < b.num * a.den

\* one-to-one maps of 1..n onto itself
Orders(n) == {f \in [1..n -> 1..n] : \A i, j \in 1..n : i # j => f[i] # f[j]}

\* mutant: sort_values with ascending=True
sort_values_ascending(stats) ==
    { [i \in DOMAIN stats |-> stats[f[i]]] : f \in
        { g \in Orders(Len(stats)) :
            \A i \in 1..(Len(stats) - 1) :
                ~FracLess(stats[g[i + 1]].Total, stats[g[i]].Total) } }

\* line 182: stats.sort_values("Total Score", ascending=False) with the default
\* kind "quicksort", which is not a stable sort: every arrangement with
\* non-increasing scores is a possible result
sort_values(stats) ==
    { [i \in DOMAIN stats |-> stats[f[i]]] : f \in
        { g \in Orders(Len(stats)) :
            \A i \in 1..(Len(stats) - 1) :
                ~FracLess(stats[g[i]].Total, stats[g[i + 1]].Total) } }

\* One run of the admin script.  Nothing survives the run: a later run starts
\* from the same login form (no counter, no lockout).
AdminCycle(inputs) ==
    /\ \E in \in inputs :
        LET seen == [op |-> "admin_login", username |-> in.username,
                     password |-> in.password, login |-> in.login,
                     afterError |-> last.op = "admin_error"]
        IN  IF ~in.login
            THEN last' = seen
            ELSE IF ~authenticated(in.username, in.password)
            THEN \* line 197
                 last' = [seen EXCEPT !.op = "admin_error"]
            ELSE LET loaded == load_reviews(store)
                 IN  IF loaded = <<>>
                     THEN \* lines 161-163
                          last' = [seen EXCEPT !.op = "admin_empty"]
                     ELSE LET shown == filter_employees(loaded, in.selected)
                          IN  \E stats \in sort_values(with_total(group_means(shown))) :
                                last' = [op |-> "admin_data",
                                         username |-> in.username,
                                         password |-> in.password,
                                         login |-> in.login,
                                         afterError |-> last.op = "admin_error",
                                         selected |-> in.selected,
                                         table |-> review_table(shown),
                                         stats |-> stats,
                                         csv |-> to_csv(shown)]
    /\ UNCHANGED <<store, session_state, pc, review, df, run, nextId, everBlocked, writes>>

----------------------------------------------------------------------------
(* Specifications *)

\* what a user does in one form cycle: search text, selectbox option, sliders,
\* comment, and whether the submit button is pressed
FormInput(query, choice, ratings, comment, button) ==
    [query |-> query, choice |-> choice, ratings |-> ratings, comment |-> comment,
     button |-> button]

\* the concurrent specification: a search without a match, a form left
\* unsubmitted, and a submission
ConcurrentInputs ==
    { FormInput(<<"z">>, 1, DefaultRatings, <<>>, TRUE),
      FormInput(<<"1">>, 1, <<5, 4, 3, 4, 5, 3>>, <<" ", "o", "k", " ">>, FALSE),
      FormInput(<<"1">>, 1, <<5, 4, 3, 4, 5, 3>>, <<" ", "o", "k", " ">>, TRUE) }

ConcurrentTokens ==
    { <<"A", "B", "C", "1", "2", "3">>, <<"1", "2", "3", "4", "5", "6">> }

\* line 29 creates the file with its header; earlier runs may have filled it
InitStores ==
    { <<>>,
      Prefill(<<"A", "B", "C", "1", "2", "3">>, Cap - 1),
      Prefill(<<"1", "2", "3", "4", "5", "6">>, Cap) }

InitWith(stores) ==
    /\ store \in stores
    /\ session_state = [s \in Sessions |-> NoToken]
    /\ pc = [s \in Sessions |-> "idle"]
    /\ review = [s \in Sessions |-> None]
    /\ df = [s \in Sessions |-> None]
    /\ run = [s \in Sessions |-> IdleRun]
    /\ nextId = 1
    /\ everBlocked = {}
    /\ writes = <<>>
    /\ last = [op |-> "start"]

Init == InitWith(InitStores)

\* what an administrator does in one portal cycle
AdminInput(username, password, login, selected) ==
    [username |-> username, password |-> password, login |-> login,
     selected |-> selected]

WrongPassword == <<"g", "u", "e", "s", "s">>

\* the portal cycle that reads the store: a Login press with the admin
\* credentials (the login form's other cases are those of SpecAdmin)
ConcurrentAdminInputs ==
    { AdminInput(ADMIN_USERNAME, AdminPassword, TRUE, {}) }

Next ==
    \/ \E s \in Sessions :
        \/ FormCycle(s, ConcurrentTokens, ConcurrentInputs)
        \/ SaveLoad(s)
        \/ SaveWrite(s)
    \/ AdminCycle(ConcurrentAdminInputs)

Spec == Init /\ [][Next]_vars

\* Submissions one at a time: a session runs only while every other session's
\* run has ended.  Every sample token, search, selection, rating and comment.
Quiet(s) == \A r \in Sessions \ {s} : pc[r] = "idle"

SoloInputs ==
    { FormInput(<<>>, ch, r, c, TRUE) :
        ch \in {1, 2}, r \in {DefaultRatings, <<5, 4, 3, 4, 5, 3>>}, c \in CommentSamples }
    \cup { FormInput(q, 1, DefaultRatings, <<>>, FALSE) : q \in QuerySamples }
    \cup { FormInput(q, 2, DefaultRatings, <<>>, TRUE) : q \in QuerySamples }

SoloInit == InitWith({<<>>})

SoloNext ==
    \E s \in Sessions :
        /\ Quiet(s)
        /\ \/ FormCycle(s, TokenSamples, SoloInputs)
           \/ SaveLoad(s)
           \/ SaveWrite(s)

SpecSolo == SoloInit /\ [][SoloNext]_vars

\* The admin portal over stores of up to MaxRows reviews, each saved through
\* save_review
RECURSIVE SavedStores(_)
SavedStores(n) ==
    IF n = 0 THEN {<<>>}
    ELSE LET shorter == SavedStores(n - 1)
         IN  shorter \cup
             { rewritten(
                    load_reviews(st),
                    make_review(0 - (Len(st) + 1), Employees[e],
                                <<"A", "B", "C", "1", "2", "3">>, r, <<>>)) :
                 st \in shorter, e \in DOMAIN Employees, r \in RatingSamples }

EmployeeNames == {Employees[e].name : e \in DOMAIN Employees}

AdminInputs ==
    { AdminInput(u, pw, b, sel) :
        u \in {ADMIN_USERNAME, <<"A", "d", "m", "i", "n">>, <<>>},
        pw \in {AdminPassword, WrongPassword, <<>>},
        b \in BOOLEAN,
        sel \in SUBSET EmployeeNames }

AdminInit == InitWith(SavedStores(MaxRows))

AdminNext == AdminCycle(AdminInputs)

SpecAdmin == AdminInit /\ [][AdminNext]_vars


----------------------------------------------------------------------------
(* Claims *)

FormOps == {"form_blocked", "form_no_employee", "form_shown", "form_submit"}
PassedOps == FormOps \ {"form_blocked"}
AdminOps == {"admin_login", "admin_error", "admin_empty", "admin_data"}

\* a loaded row as the text to_csv writes for it
RowText(r) == [r EXCEPT !.user_token = FormatCell(@), !.comment = FormatCell(@)]

LastWrite == writes[Len(writes)]

\* C1: every record save_review has written is still in the store, with the
\* fields it was written with, and the records stand in the order of writing.
C1_AppendOnly ==
    \E pos \in [DOMAIN writes -> DOMAIN store] :
        /\ \A i \in DOMAIN writes : store[pos[i]] = writes[i].entry
        /\ \A i, k \in DOMAIN writes : i < k => pos[i] < pos[k]

\* C2: the write of save_review replaces the file by the frame the call loaded
\* earlier plus its own row, whatever the file holds when it writes.
C2_WriteIsLoadedFramePlusRow ==
    last.op = "save_write" =>
        /\ Len(store) = Len(LastWrite.frame) + 1
        /\ store[Len(store)] = LastWrite.entry
        /\ \A i \in DOMAIN LastWrite.frame : store[i] = RowText(LastWrite.frame[i])

\* C2, reached: two submissions loaded the same frame, both wrote, and the
\* store holds the second writer's row and not the first's.
C2_LostUpdate ==
    /\ Len(writes) = 2
    /\ last.op = "save_write"
    /\ writes[1].s # writes[2].s
    /\ writes[1].frame = writes[2].frame
    /\ \E j \in DOMAIN store : store[j] = writes[2].entry
    /\ \A j \in DOMAIN store : store[j].id # writes[1].entry.id

\* C3: no token value has more than Cap records in the store.
C3_AtMostCapPerToken ==
    \A t \in TokenSamples :
        Cardinality({i \in DOMAIN store : store[i].user_token = t}) <= Cap

LoadedWithToken(t) ==
    SelectSeq(load_reviews(store), LAMBDA r : r.user_token = StrCell(t))

C5_TokenStable ==
    /\ [](last.op \in FormOps =>
            last.token = session_state[last.s] /\ last.token \in generate_captcha)
    /\ [][\A s \in Sessions :
            session_state[s] # NoToken => session_state'[s] = session_state[s]]_vars

\* C5, reached: a session that submitted under its token runs the form again
\* and is shown the same token.
C5_LaterCallSameToken ==
    /\ last.op \in FormOps
    /\ \E i \in DOMAIN writes :
        writes[i].s = last.s /\ writes[i].entry.user_token = last.token

\* C6: a submission with no other submission running adds one record;
\* load_reviews then returns the prior records and the submitted one, each with
\* the field texts it had.
C6_SubmitRoundTrip ==
    last.op = "save_write" =>
        LET after == load_reviews(store)
        IN  /\ Len(after) = Len(LastWrite.frame) + 1
            /\ \A i \in DOMAIN LastWrite.frame :
                 RowText(after[i]) = RowText(LastWrite.frame[i])
            /\ RowText(after[Len(after)]) = LastWrite.entry

\* C7: once a form cycle has rejected a token, every later form cycle with
\* that token is rejected.
C7_BlockPermanent ==
    last.op \in PassedOps => last.token \notin everBlocked

\* C8: the portal shows review data only in a Login cycle with the admin
\* username and a password that verifies; a Login cycle with a mismatch shows
\* the error and no data; a Login cycle with the right credentials succeeds
\* whatever the cycles before it showed.
C8_AdminGate ==
    last.op \in AdminOps =>
        LET verified == /\ last.username = ADMIN_USERNAME
                        /\ checkpw(last.password, HASHED_PASSWORD)
        IN  /\ last.op = "admin_data" => last.login /\ verified
            /\ last.login /\ ~verified => last.op = "admin_error"
            /\ last.login /\ verified => last.op \in {"admin_data", "admin_empty"}
            /\ last.op # "admin_data" => DOMAIN last \cap {"table", "stats", "csv"} = {}

C8_DataAfterError ==
    last.op = "admin_data" /\ last.afterError

RECURSIVE SumOver(_, _)
SumOver(S, q) ==
    IF S = {} THEN 0
    ELSE LET x == CHOOSE y \in S : TRUE IN q[x] + SumOver(S \ {x}, q)

ShownNames == {last.table[i].Employee : i \in DOMAIN last.table}
ShownRows(name) == {i \in DOMAIN last.table : last.table[i].Employee = name}
FirstShown(name) == CHOOSE i \in ShownRows(name) : \A j \in ShownRows(name) : i <= j

\* the summary has one row per employee name of the shown records
OneRowPerName ==
    /\ Len(last.stats) = Cardinality(ShownNames)
    /\ {last.stats[g].Employee : g \in DOMAIN last.stats} = ShownNames

\* each category mean is the employee's mean rating, and Total Score is the
\* mean of the six category means
TotalIsMeanOfMeans ==
    \A g \in DOMAIN last.stats :
        LET row == last.stats[g]
            mine == ShownRows(row.Employee)
            catSum(c) == SumOver(mine, [i \in mine |-> last.table[i].ratings[c]])
        IN  /\ \A c \in 1..NumCategories :
                 row.means[c].num * Cardinality(mine) = catSum(c) * row.means[c].den
            /\ row.Total.num * (Cardinality(mine) * NumCategories)
                 = Sum([c \in 1..NumCategories |-> catSum(c)]) * row.Total.den

\* a higher Total Score never comes after a lower one
Descending ==
    \A i, j \in DOMAIN last.stats :
        i < j => ~FracLess(last.stats[i].Total, last.stats[j].Total)

\* employees with equal Total Score stand in the order of the records
TiesKeepInputOrder ==
    \A i, j \in DOMAIN last.stats :
        (/\ i < j
         /\ ~FracLess(last.stats[i].Total, last.stats[j].Total)
         /\ ~FracLess(last.stats[j].Total, last.stats[i].Total))
        => FirstShown(last.stats[i].Employee) < FirstShown(last.stats[j].Employee)

\* C9, as claimed: one row per employee, Total Score the mean of the category
\* means, rows in descending Total Score, ties in input order.
C9_SummarySortedStable ==
    last.op = "admin_data" =>
        OneRowPerName /\ TotalIsMeanOfMeans /\ Descending /\ TiesKeepInputOrder

\* C9, amended: one row per employee, Total Score the mean of the category
\* means, rows in descending Total Score; nothing about the order of ties.
C9_SummarySorted ==
    last.op = "admin_data" => OneRowPerName /\ TotalIsMeanOfMeans /\ Descending

C9_TwoScores ==
    /\ last.op = "admin_data"
    /\ Len(last.stats) >= 2
    /\ FracLess(last.stats[2].Total, last.stats[1].Total)

\* C10: the file changes only in the write of a run that passed the throttle,
\* had an employee selected and had the submit button pressed; every other
\* step, the admin portal's included, leaves the records as they are.
C10_WriteOnlyBySubmit ==
    [][store' # store =>
         \E s \in Sessions :
            /\ pc[s] = "save_write" /\ pc'[s] = "idle"
            /\ run[s].count < Cap
            /\ run[s].emp # None
            /\ run[s].submit]_vars

\* C10, reached: a rejected cycle, after a record was written
C10_BlockedAfterWrite ==
    last.op = "form_blocked" /\ writes # <<>>

====
